---- MODULE Spec2Model ----
(***************************************************************************)
(* Two state machines of RxPY.                                             *)
(*                                                                         *)
(* Bounded merge (rx/core/operators/merge.py, _merge with max_concurrent   *)
(* set).  Threads: the thread that calls subscribe (line 70-71), the       *)
(* thread of the outer sequence (its on_next / on_completed / on_error,    *)
(* which take no lock) and one thread per inner sequence (its callbacks    *)
(* are wrapped in synchronized(source.lock)).  Every read and write of the *)
(* closure cells active_count, is_stopped, queue and of group is a step of *)
(* its own wherever a step of another thread can come in between.          *)
(*                                                                         *)
(* QtThreadSafeScheduler (rx/scheduler/mainloop/qtthreadsafescheduler.py): *)
(* producer threads call schedule / schedule_relative / schedule_periodic  *)
(* and dispose the disposables returned; the calls post events, which the  *)
(* loop thread dispatches in RxHandler.event; timers fire on the loop      *)
(* thread.                                                                 *)
(***************************************************************************)
EXTENDS Integers, Sequences, FiniteSets, TLC

\* ---- bounds of the model ------------------------------------------------
NumInner == 4   \* inner sequences the outer emits at most
MaxVals  == 1   \* values the inner sequences emit in one run, all together
MaxMC    == 2   \* max_concurrent ranges over 0..MaxMC

Inners == 1..NumInner
Outer  == 0     \* the outer subscription as a member of group; source 0 of an event
NoOne  == 0     \* lock free

VARIABLES
  max_concurrent, \* merge.py:11   the cap given to _merge
  active_count,   \* merge.py:34   active_count[0]
  group,          \* merge.py:35   members of the CompositeDisposable
  groupDisposed,  \* merge.py:35   the CompositeDisposable was released
  is_stopped,     \* merge.py:36   is_stopped[0]
  queue,          \* merge.py:37   pending inner sequences, FIFO
  lock,           \* merge.py:43   holder of source.lock (NoOne when free)
  mpc,            \* subscribing thread: position in line 70-71
  opc,            \* outer thread: position in on_next / on_completed (58-68)
  oarg,           \* outer thread: inner_source of the running on_next
  otmp,           \* outer thread: value of active_count[0] loaded by +=
  outerDisposed,  \* the subscription to the outer has been released
  emittedInners,  \* number of inner sequences the outer has emitted so far
  kpc,            \* lock holder: position in inner on_completed (43-52) or on_next (54)
  karg,           \* lock holder: s popped from the queue (line 47)
  ktmp,           \* lock holder: value of active_count[0] loaded by -=
  ist,            \* per inner sequence: its life cycle
  emitted,        \* per inner sequence: number of values it has emitted
  subOrder,       \* calls of xs.subscribe_ in order: the inner sequence and the call site
  terminated,     \* downstream observer has received a terminal event
  downstream      \* events delivered to the downstream consumer, in order

mergeVars ==
  << max_concurrent, active_count, group, groupDisposed, is_stopped, queue,
     lock, mpc, opc, oarg, otmp, outerDisposed, emittedInners,
     kpc, karg, ktmp, ist, emitted, subOrder, terminated, downstream >>

\* ---- QtThreadSafeScheduler (rx/scheduler/mainloop/qtthreadsafescheduler.py) --
\* bounds of the scheduler's model
MaxReq   == 1   \* scheduling calls made in one run (one more where the inputs are fixed)
MaxDelay == 2   \* duetime ranges over -MaxDelay..MaxDelay, in half milliseconds
MaxFire  == 2   \* firings of one timer
MaxState == 1   \* the state given to a scheduling call ranges over 0..MaxState
MaxDispose == 2 \* dispose calls on one returned disposable

Requests  == 1..(MaxReq + 1)
Producers == {"p1", "p2"}   \* threads that call the scheduler and release tokens
Loop      == "loop"         \* the thread that owns the Qt event loop
Delays    == (0 - MaxDelay)..MaxDelay
Periods   == 1..MaxDelay
States    == 0..MaxState
Times     == 0..MaxDelay         \* instants and clock readings, in half milliseconds

\* lines 25-28: the tags of the posted events
SCHEDULE          == "I"
SCHEDULE_RELATIVE == "R"
SCHEDULE_PERIODIC == "P"
DISPOSE           == "D"

VARIABLES
  nreq,           \* number of scheduling calls made so far
  call,           \* per request: the call (operation, calling thread, duetime, state)
  path,           \* per request: the tag of the event its call posted (164/199/249)
  is_disposed,    \* per request: the closure's flag (lines 154, 184)
  released,       \* per request: dispose() of the returned disposable was called
  posted,         \* per producer thread: events posted and not yet delivered
  dispatched,     \* events delivered to RxHandler.event, in order
  timer,          \* per request: its QTimer (timer_ptr[0] / singleShot)
  periodic_state, \* per request: periodic_state (line 239)
  invoked,        \* per request: the calls of its action, in order
  faulted,        \* per request: the calls of its action (their numbers) that raised
  disposeCalls,   \* per request: number of dispose calls on the returned disposable
  timers          \* QtScheduler._timers: the requests whose QTimer is in the set

qtVars == << nreq, call, path, is_disposed, released, posted, dispatched,
             timer, periodic_state, invoked, faulted, disposeCalls, timers >>

vars == << mergeVars, qtVars >>

NoCall == [op |-> "none", thread |-> "none", duetime |-> 0, now |-> 0, state |-> 0]

\* the scheduler after __init__ (135-137): nothing scheduled, nothing posted
QtInit ==
  /\ nreq = 0
  /\ call = [r \in Requests |-> NoCall]
  /\ path = [r \in Requests |-> "none"]
  /\ is_disposed = [r \in Requests |-> FALSE]
  /\ released = [r \in Requests |-> FALSE]
  /\ posted = [t \in Producers |-> << >>]
  /\ dispatched = << >>
  /\ timer = [r \in Requests |-> "none"]
  /\ periodic_state = [r \in Requests |-> 0]
  /\ invoked = [r \in Requests |-> << >>]
  /\ faulted = [r \in Requests |-> {}]
  /\ disposeCalls = [r \in Requests |-> 0]
  /\ timers = {}

Ev(kind, src, val) == [kind |-> kind, src |-> src, val |-> val]

\* number of values the inner sequences 1..n have emitted
RECURSIVE EmittedUpTo(_)
EmittedUpTo(n) == IF n = 0 THEN 0 ELSE emitted[n] + EmittedUpTo(n - 1)

Init ==
  /\ max_concurrent \in 0..MaxMC
  /\ active_count = 0
  /\ group = {}
  /\ groupDisposed = FALSE
  /\ is_stopped = FALSE
  /\ queue = << >>
  /\ lock = NoOne
  /\ mpc = "start"
  /\ opc = "unsubscribed"
  /\ oarg = 0
  /\ otmp = 0
  /\ outerDisposed = FALSE
  /\ emittedInners = 0
  /\ kpc = "none"
  /\ karg = 0
  /\ ktmp = 0
  /\ ist = [i \in Inners |-> "unborn"]
  /\ emitted = [i \in Inners |-> 0]
  /\ subOrder = << >>
  /\ terminated = FALSE
  /\ downstream = << >>
  /\ QtInit

\* ---- CompositeDisposable (group) and the inner subscription ---------------
\* group.add(d): a released aggregate releases d at once instead of storing it
GroupAdd(d) == IF groupDisposed THEN group ELSE group \cup {d}

\* group.remove(d)
GroupRemove(d) == group \ {d}

\* the life cycle of the inner sequences after group.dispose(): every member
\* that is running is released and makes no further callback; the callback
\* that holds the lock at that moment runs to its end
ReleasedIst(f) ==
  [i \in Inners |-> IF i \in group /\ f[i] = "running" THEN "disposed" ELSE f[i]]

\* ---- the downstream observer ---------------------------------------------
\* mutant of ObserverOnNext: the value is forwarded whatever came before
ObserverOnNext_NoGuard(i, v) ==
  downstream' = Append(downstream, Ev("next", i, v))

\* observer.on_next(v): dropped once a terminal event has been delivered
ObserverOnNext(i, v) ==
  downstream' = IF terminated THEN downstream
                ELSE Append(downstream, Ev("next", i, v))

\* observer.on_error(e) / observer.on_completed(): the first terminal event is
\* delivered, marks the observer terminated and releases the subscription
\* (group); later ones are dropped.  f is ist as the caller leaves it.
ObserverTerminal(e, f) ==
  IF terminated
    THEN /\ ist' = f
         /\ UNCHANGED << downstream, terminated, group, groupDisposed, outerDisposed >>
    ELSE /\ downstream' = Append(downstream, e)
         /\ terminated' = TRUE
         /\ group' = {}
         /\ groupDisposed' = TRUE
         /\ outerDisposed' = (outerDisposed \/ Outer \in group)
         /\ ist' = ReleasedIst(f)

\* ---- merge.py: subscribe(observer, scheduler), lines 33-71 ----------------
\* mutant of Admit: the comparison lets one sequence too many in
Admit_OffByOne == active_count <= max_concurrent

\* line 59: if active_count[0] < max_concurrent
Admit == active_count < max_concurrent

\* line 51: if is_stopped[0] and active_count[0] == 0
InnerCompletes == is_stopped /\ active_count = 0

\* line 67: if active_count[0] == 0
OuterCompletes == active_count = 0

\* line 47: s = queue.pop(0)
QueueHead == Head(queue)
QueueRest == Tail(queue)

\* mutant of QueueAppend: the sequence is put at the front of the queue
QueueAppend_Front(xs) == << xs >> \o queue

\* line 63: queue.append(inner_source)
QueueAppend(xs) == Append(queue, xs)

\* mutant of subscribe: the subscription is not added to group (line 41)
subscribe_NoGroupAdd(xs, dequeued, f) ==
  /\ group' = group
  /\ subOrder' = Append(subOrder, [xs |-> xs, dequeued |-> dequeued])
  /\ ist' = [f EXCEPT ![xs] = IF groupDisposed THEN "disposed" ELSE "running"]

\* lines 39-56, subscribe(xs): the subscription is added to group and
\* xs.subscribe_ is called.  dequeued tells the caller: FALSE for line 61,
\* TRUE for line 48; f is ist as the caller leaves it
subscribe(xs, dequeued, f) ==
  /\ group' = GroupAdd(xs)
  /\ subOrder' = Append(subOrder, [xs |-> xs, dequeued |-> dequeued])
  /\ ist' = [f EXCEPT ![xs] = IF groupDisposed THEN "disposed" ELSE "running"]

\* line 70, first half: source.subscribe_(on_next, observer.on_error, on_completed)
SubscribeSource ==
  /\ mpc = "start"
  /\ mpc' = "adding"
  /\ opc' = "idle"
  /\ UNCHANGED << max_concurrent, active_count, group, groupDisposed, is_stopped,
                  queue, lock, oarg, otmp, outerDisposed, emittedInners, kpc, karg,
                  ktmp, ist, emitted, subOrder, terminated, downstream >>
  /\ UNCHANGED qtVars

\* line 70-71, second half: group.add(<outer subscription>); return group
GroupAddOuter ==
  /\ mpc = "adding"
  /\ mpc' = "returned"
  /\ group' = GroupAdd(Outer)
  /\ outerDisposed' = (outerDisposed \/ groupDisposed)
  /\ UNCHANGED << max_concurrent, active_count, groupDisposed, is_stopped, queue,
                  lock, opc, oarg, otmp, emittedInners, kpc, karg, ktmp, ist,
                  emitted, subOrder, terminated, downstream >>
  /\ UNCHANGED qtVars

\* ---- the outer sequence's thread: lines 58-68, no lock taken --------------
\* on_next(inner_source) is entered and line 59 is evaluated
OuterOnNext ==
  /\ opc = "idle"
  /\ ~outerDisposed
  /\ emittedInners < NumInner
  /\ emittedInners' = emittedInners + 1
  /\ oarg' = emittedInners + 1
  /\ ist' = [ist EXCEPT ![emittedInners + 1] = "arriving"]
  /\ opc' = IF Admit THEN "n_load" ELSE "n_append"
  /\ UNCHANGED << max_concurrent, active_count, group, groupDisposed, is_stopped,
                  queue, lock, mpc, otmp, outerDisposed, kpc, karg, ktmp, emitted,
                  subOrder, terminated, downstream >>
  /\ UNCHANGED qtVars

\* line 60, active_count[0] += 1: the load
OuterLoad ==
  /\ opc = "n_load"
  /\ otmp' = active_count
  /\ opc' = "n_store"
  /\ UNCHANGED << max_concurrent, active_count, group, groupDisposed, is_stopped,
                  queue, lock, mpc, oarg, outerDisposed, emittedInners, kpc, karg,
                  ktmp, ist, emitted, subOrder, terminated, downstream >>
  /\ UNCHANGED qtVars

\* line 60, active_count[0] += 1: the store
OuterStore ==
  /\ opc = "n_store"
  /\ active_count' = otmp + 1
  /\ otmp' = 0
  /\ opc' = "n_sub"
  /\ UNCHANGED << max_concurrent, group, groupDisposed, is_stopped, queue, lock,
                  mpc, oarg, outerDisposed, emittedInners, kpc, karg, ktmp,
                  ist, emitted, subOrder, terminated, downstream >>
  /\ UNCHANGED qtVars

\* line 61: subscribe(inner_source)
OuterSubscribe ==
  /\ opc = "n_sub"
  /\ subscribe(oarg, FALSE, ist)
  /\ oarg' = 0
  /\ opc' = "idle"
  /\ UNCHANGED << max_concurrent, active_count, groupDisposed, is_stopped, queue,
                  lock, mpc, otmp, outerDisposed, emittedInners, kpc, karg,
                  ktmp, emitted, terminated, downstream >>
  /\ UNCHANGED qtVars

\* line 63: queue.append(inner_source)
OuterAppend ==
  /\ opc = "n_append"
  /\ queue' = QueueAppend(oarg)
  /\ ist' = [ist EXCEPT ![oarg] = "queued"]
  /\ oarg' = 0
  /\ opc' = "idle"
  /\ UNCHANGED << max_concurrent, active_count, group, groupDisposed, is_stopped,
                  lock, mpc, otmp, outerDisposed, emittedInners, kpc, karg,
                  ktmp, emitted, subOrder, terminated, downstream >>
  /\ UNCHANGED qtVars

\* line 66: is_stopped[0] = True
OuterOnCompleted ==
  /\ opc = "idle"
  /\ ~outerDisposed
  /\ is_stopped' = TRUE
  /\ opc' = "c_check"
  /\ UNCHANGED << max_concurrent, active_count, group, groupDisposed, queue, lock,
                  mpc, oarg, otmp, outerDisposed, emittedInners, kpc, karg, ktmp,
                  ist, emitted, subOrder, terminated, downstream >>
  /\ UNCHANGED qtVars

\* lines 67-68: if active_count[0] == 0: observer.on_completed()
OuterCheck ==
  /\ opc = "c_check"
  /\ opc' = "done"
  /\ IF OuterCompletes
       THEN ObserverTerminal(Ev("completed", Outer, 0), ist)
       ELSE UNCHANGED << downstream, terminated, group, groupDisposed,
                         outerDisposed, ist >>
  /\ UNCHANGED << max_concurrent, active_count, is_stopped, queue, lock, mpc, oarg,
                  otmp, emittedInners, kpc, karg, ktmp, emitted, subOrder >>
  /\ UNCHANGED qtVars

\* line 70: the outer's on_error is observer.on_error itself
OuterOnError ==
  /\ opc = "idle"
  /\ ~outerDisposed
  /\ opc' = "done"
  /\ ObserverTerminal(Ev("error", Outer, 0), ist)
  /\ UNCHANGED << max_concurrent, active_count, is_stopped, queue, lock, mpc, oarg,
                  otmp, emittedInners, kpc, karg, ktmp, emitted, subOrder >>
  /\ UNCHANGED qtVars

\* ---- the inner sequences' threads: lines 43-56, under source.lock ---------
\* an inner sequence calls on_next / on_error while it is subscribed; one
\* whose subscription was released may still have such a call in flight (its
\* thread was at the lock when the release came)
MayCall(i) == ist[i] \in {"running", "disposed"}

\* an inner sequence calls on_completed while it is subscribed
MayComplete(i) == ist[i] = "running"

\* mutant of inner_on_next: the value is not handed to the observer
inner_on_next_Dropped(i) ==
  /\ MayCall(i)
  /\ lock = NoOne
  /\ emitted' = [emitted EXCEPT ![i] = @ + 1]
  /\ downstream' = downstream
  /\ lock' = i
  /\ kpc' = "k_next"
  /\ UNCHANGED << max_concurrent, active_count, group, groupDisposed, is_stopped,
                  queue, mpc, opc, oarg, otmp, outerDisposed, emittedInners,
                  karg, ktmp, ist, subOrder, terminated >>
  /\ UNCHANGED qtVars

\* line 54: on_next = synchronized(source.lock)(observer.on_next): the lock
\* is taken and observer.on_next(v) is entered; v is the number of the value
\* in the inner sequence
inner_on_next(i) ==
  /\ MayCall(i)
  /\ lock = NoOne
  /\ emitted' = [emitted EXCEPT ![i] = @ + 1]
  /\ ObserverOnNext(i, emitted[i] + 1)
  /\ lock' = i
  /\ kpc' = "k_next"
  /\ UNCHANGED << max_concurrent, active_count, group, groupDisposed, is_stopped,
                  queue, mpc, opc, oarg, otmp, outerDisposed, emittedInners,
                  karg, ktmp, ist, subOrder, terminated >>
  /\ UNCHANGED qtVars

\* an inner sequence emits a value, while the inner sequences have emitted
\* fewer than MaxVals values
InnerOnNext(i) ==
  /\ EmittedUpTo(NumInner) < MaxVals
  /\ inner_on_next(i)

\* line 54: observer.on_next(v) returns and the lock is released
InnerOnNextReturn ==
  /\ kpc = "k_next"
  /\ kpc' = "none"
  /\ lock' = NoOne
  /\ UNCHANGED << max_concurrent, active_count, group, groupDisposed, is_stopped,
                  queue, mpc, opc, oarg, otmp, outerDisposed, emittedInners,
                  karg, ktmp, ist, emitted, subOrder, terminated, downstream >>
  /\ UNCHANGED qtVars

\* line 55: on_error = synchronized(source.lock)(observer.on_error)
InnerOnError(i) ==
  /\ MayCall(i)
  /\ lock = NoOne
  /\ ObserverTerminal(Ev("error", i, 0),
                      [ist EXCEPT ![i] = IF @ = "running" THEN "errored" ELSE @])
  /\ UNCHANGED << max_concurrent, active_count, is_stopped, queue, lock, mpc, opc,
                  oarg, otmp, emittedInners, kpc, karg, ktmp, emitted, subOrder >>
  /\ UNCHANGED qtVars

\* lines 43-45: the lock is taken; group.remove(subscription)
InnerOnCompleted(i) ==
  /\ MayComplete(i)
  /\ lock = NoOne
  /\ lock' = i
  /\ ist' = [ist EXCEPT ![i] = "completing"]
  /\ group' = GroupRemove(i)
  /\ kpc' = "k_test"
  /\ UNCHANGED << max_concurrent, active_count, groupDisposed, is_stopped, queue,
                  mpc, opc, oarg, otmp, outerDisposed, emittedInners, karg, ktmp,
                  emitted, subOrder, terminated, downstream >>
  /\ UNCHANGED qtVars

\* lines 46-47: if queue: s = queue.pop(0)
InnerTestQueue ==
  /\ kpc = "k_test"
  /\ IF queue # << >>
       THEN /\ karg' = QueueHead
            /\ queue' = QueueRest
            /\ kpc' = "k_sub"
       ELSE /\ kpc' = "k_load"
            /\ UNCHANGED << karg, queue >>
  /\ UNCHANGED << max_concurrent, active_count, group, groupDisposed, is_stopped,
                  lock, mpc, opc, oarg, otmp, outerDisposed, emittedInners, ktmp,
                  ist, emitted, subOrder, terminated, downstream >>
  /\ UNCHANGED qtVars

\* mutant of InnerSubscribeNext: the slot is given back as well
InnerSubscribeNext_Decrements ==
  /\ kpc = "k_sub"
  /\ subscribe(karg, TRUE, [ist EXCEPT ![lock] = "completed"])
  /\ active_count' = active_count - 1
  /\ karg' = 0
  /\ kpc' = "none"
  /\ lock' = NoOne
  /\ UNCHANGED << max_concurrent, groupDisposed, is_stopped, queue,
                  mpc, opc, oarg, otmp, outerDisposed, emittedInners, ktmp,
                  emitted, terminated, downstream >>
  /\ UNCHANGED qtVars

\* line 48: subscribe(s), with the lock held; then the lock is released
InnerSubscribeNext ==
  /\ kpc = "k_sub"
  /\ subscribe(karg, TRUE, [ist EXCEPT ![lock] = "completed"])
  /\ karg' = 0
  /\ kpc' = "none"
  /\ lock' = NoOne
  /\ UNCHANGED << max_concurrent, active_count, groupDisposed, is_stopped, queue,
                  mpc, opc, oarg, otmp, outerDisposed, emittedInners, ktmp,
                  emitted, terminated, downstream >>
  /\ UNCHANGED qtVars

\* line 50, active_count[0] -= 1: the load
InnerLoad ==
  /\ kpc = "k_load"
  /\ ktmp' = active_count
  /\ kpc' = "k_store"
  /\ UNCHANGED << max_concurrent, active_count, group, groupDisposed, is_stopped,
                  queue, lock, mpc, opc, oarg, otmp, outerDisposed, emittedInners,
                  karg, ist, emitted, subOrder, terminated, downstream >>
  /\ UNCHANGED qtVars

\* line 50, active_count[0] -= 1: the store
InnerStore ==
  /\ kpc = "k_store"
  /\ active_count' = ktmp - 1
  /\ ktmp' = 0
  /\ kpc' = "k_check"
  /\ UNCHANGED << max_concurrent, group, groupDisposed, is_stopped, queue, lock,
                  mpc, opc, oarg, otmp, outerDisposed, emittedInners, karg,
                  ist, emitted, subOrder, terminated, downstream >>
  /\ UNCHANGED qtVars

\* lines 51-52: if is_stopped[0] and active_count[0] == 0:
\* observer.on_completed(); then the lock is released
InnerCheck ==
  /\ kpc = "k_check"
  /\ kpc' = "none"
  /\ lock' = NoOne
  /\ IF InnerCompletes
       THEN ObserverTerminal(Ev("completed", lock, 0),
                             [ist EXCEPT ![lock] = "completed"])
       ELSE /\ ist' = [ist EXCEPT ![lock] = "completed"]
            /\ UNCHANGED << downstream, terminated, group, groupDisposed,
                            outerDisposed >>
  /\ UNCHANGED << max_concurrent, active_count, is_stopped, queue, mpc, opc, oarg,
                  otmp, emittedInners, karg, ktmp, emitted, subOrder >>
  /\ UNCHANGED qtVars

Next ==
  \/ SubscribeSource
  \/ GroupAddOuter
  \/ OuterOnNext
  \/ OuterLoad
  \/ OuterStore
  \/ OuterSubscribe
  \/ OuterAppend
  \/ OuterOnCompleted
  \/ OuterCheck
  \/ OuterOnError
  \/ \E i \in Inners : InnerOnNext(i)
  \/ InnerOnNextReturn
  \/ \E i \in Inners : InnerOnError(i)
  \/ \E i \in Inners : InnerOnCompleted(i)
  \/ InnerTestQueue
  \/ InnerSubscribeNext
  \/ InnerLoad
  \/ InnerStore
  \/ InnerCheck

Spec == Init /\ [][Next]_vars

\* ==== QtThreadSafeScheduler: the calls, the posted events, the timers =======

\* line 183: duetime_ms = max(0, int(self.to_seconds(duetime) * 1000.0)); d is
\* the duetime in half milliseconds, int() truncates towards zero
duetime_ms(d) ==
  LET ms == IF d >= 0 THEN d \div 2 ELSE 0 - ((0 - d) \div 2)
  IN  IF ms > 0 THEN ms ELSE 0

\* line 186: if duetime == 0
ForwardsToSchedule(d) == d = 0

\* the action given to the scheduler: a periodic action returns the next state
action(s) == s + 1

\* events thread t has posted so far
PostCount(t) ==
  Len(posted[t]) +
  Cardinality({ n \in 1..Len(dispatched) : dispatched[n].from = t })

RxEvent(scheduling, r, t, ms) ==
  [scheduling |-> scheduling, r |-> r, from |-> t, n |-> PostCount(t) + 1, ms |-> ms]

\* mutant of post_function: the event is put in front of those waiting
post_function_Front(t, scheduling, r, ms) ==
  posted' = [posted EXCEPT ![t] = << RxEvent(scheduling, r, t, ms) >> \o @]

\* lines 122-126: QCoreApplication.postEvent(current_handler, RxEvent(scheduling, args))
post_function(t, scheduling, r, ms) ==
  posted' = [posted EXCEPT ![t] = Append(@, RxEvent(scheduling, r, t, ms))]

\* lines 153-165, schedule(action, state): is_disposed = False, the event
\* SCHEDULE is posted
schedule(r, t) ==
  /\ is_disposed' = [is_disposed EXCEPT ![r] = FALSE]
  /\ path' = [path EXCEPT ![r] = SCHEDULE]
  /\ post_function(t, SCHEDULE, r, 0)

\* a producer thread calls schedule(action, s)
Schedule(t, s) ==
  /\ nreq' = nreq + 1
  /\ call' = [call EXCEPT ![nreq + 1] =
                [op |-> "schedule", thread |-> t, duetime |-> 0, now |-> 0, state |-> s]]
  /\ schedule(nreq + 1, t)
  /\ UNCHANGED << released, dispatched, timer, periodic_state, invoked >>
  /\ UNCHANGED << faulted, disposeCalls, timers >>
  /\ UNCHANGED mergeVars

\* mutant of schedule_relative: every call posts SCHEDULE_RELATIVE
schedule_relative_NoForward(r, t, d) ==
  /\ is_disposed' = [is_disposed EXCEPT ![r] = FALSE]
  /\ path' = [path EXCEPT ![r] = SCHEDULE_RELATIVE]
  /\ post_function(t, SCHEDULE_RELATIVE, r, duetime_ms(d))

\* lines 183-200, schedule_relative(duetime, action, state)
schedule_relative(r, t, d) ==
  IF ForwardsToSchedule(d)
    THEN schedule(r, t)
    ELSE /\ is_disposed' = [is_disposed EXCEPT ![r] = FALSE]
         /\ path' = [path EXCEPT ![r] = SCHEDULE_RELATIVE]
         /\ post_function(t, SCHEDULE_RELATIVE, r, duetime_ms(d))

\* a producer thread calls schedule_relative(d, action, s)
ScheduleRelative(t, d, s) ==
  /\ nreq' = nreq + 1
  /\ call' = [call EXCEPT ![nreq + 1] =
                [op |-> "schedule_relative", thread |-> t, duetime |-> d, now |-> 0, state |-> s]]
  /\ schedule_relative(nreq + 1, t, d)
  /\ UNCHANGED << released, dispatched, timer, periodic_state, invoked >>
  /\ UNCHANGED << faulted, disposeCalls, timers >>
  /\ UNCHANGED mergeVars

\* lines 202-219, schedule_absolute(duetime, action, state):
\* delta = self.to_datetime(duetime) - self.now;
\* return self.schedule_relative(delta, action, state=state).
\* instant and now are instants in half milliseconds
ScheduleAbsolute(t, instant, now, s) ==
  /\ nreq' = nreq + 1
  /\ call' = [call EXCEPT ![nreq + 1] =
                [op |-> "schedule_absolute", thread |-> t, duetime |-> instant,
                 now |-> now, state |-> s]]
  /\ schedule_relative(nreq + 1, t, instant - now)
  /\ UNCHANGED << released, dispatched, timer, periodic_state, invoked >>
  /\ UNCHANGED << faulted, disposeCalls, timers >>
  /\ UNCHANGED mergeVars

\* lines 237-250, schedule_periodic(period, action, state); p is the period
\* in half milliseconds, period_ms = int(period * 1000.0)
SchedulePeriodic(t, p, s) ==
  /\ nreq' = nreq + 1
  /\ call' = [call EXCEPT ![nreq + 1] =
                [op |-> "schedule_periodic", thread |-> t, duetime |-> p, now |-> 0, state |-> s]]
  /\ periodic_state' = [periodic_state EXCEPT ![nreq + 1] = s]
  /\ path' = [path EXCEPT ![nreq + 1] = SCHEDULE_PERIODIC]
  /\ post_function(t, SCHEDULE_PERIODIC, nreq + 1, p \div 2)
  /\ UNCHANGED << is_disposed, released, dispatched, timer, invoked >>
  /\ UNCHANGED << faulted, disposeCalls, timers >>
  /\ UNCHANGED mergeVars

\* dispose() of schedule (lines 160-162): is_disposed = False; of
\* schedule_relative (lines 195-197): is_disposed = True; of schedule_periodic
\* (lines 246-247): self._post(DISPOSE, (timer_ptr,)).  t is the calling thread
dispose(r, t) ==
  IF path[r] = SCHEDULE
    THEN /\ is_disposed' = [is_disposed EXCEPT ![r] = FALSE]
         /\ UNCHANGED posted
    ELSE IF path[r] = SCHEDULE_RELATIVE
      THEN /\ is_disposed' = [is_disposed EXCEPT ![r] = TRUE]
           /\ UNCHANGED posted
      ELSE /\ post_function(t, DISPOSE, r, 0)
           /\ UNCHANGED is_disposed

\* mutant of DisposableDispose: every call runs the dispose function
DisposableDispose_Repeats(r, t) ==
  /\ released' = [released EXCEPT ![r] = TRUE]
  /\ dispose(r, t)

\* Disposable(dispose).dispose(), reached through the CompositeDisposable
\* returned: only the first call runs the dispose function
DisposableDispose(r, t) ==
  IF released[r]
    THEN UNCHANGED << released, is_disposed, posted >>
    ELSE /\ released' = [released EXCEPT ![r] = TRUE]
         /\ dispose(r, t)

\* thread t disposes the disposable returned for request r
Release(r, t) ==
  /\ r <= nreq
  /\ disposeCalls' = [disposeCalls EXCEPT ![r] = @ + 1]
  /\ DisposableDispose(r, t)
  /\ UNCHANGED << nreq, call, path, dispatched, timer, periodic_state, invoked,
                  faulted, timers >>
  /\ UNCHANGED mergeVars

\* ---- the loop thread: RxHandler.event and the timers ----------------------
\* the host loop hands the handler the oldest event of one producer thread
\* (events of one thread in the order posted, no order between threads)
Delivered(t) == Head(posted[t])

\* lines 88-92, RxHandler.event: the event leaves the queue and is dispatched
\* on its tag
event(t) ==
  /\ posted' = [posted EXCEPT ![t] = Tail(@)]
  /\ dispatched' = Append(dispatched, Delivered(t))

\* the action of request r is called by thread th with the state arg
Invocation(r, th, arg) ==
  invoked' = [invoked EXCEPT ![r] = Append(@, [thread |-> th, arg |-> arg])]

\* mutant of invoke_action: the flag is not looked at
invoke_action_Unchecked(r, th) == Invocation(r, th, call[r].state)

\* lines 156-158 and 191-193, invoke_action of schedule and of
\* schedule_relative: if not is_disposed: self.invoke_action(action, state)
invoke_action(r, th) ==
  IF is_disposed[r]
    THEN UNCHANGED invoked
    ELSE Invocation(r, th, call[r].state)

\* mutant of invoke_action_periodic: the state returned is not kept
invoke_action_periodic_Stateless(r, th) ==
  /\ Invocation(r, th, periodic_state[r])
  /\ periodic_state' = periodic_state

\* lines 242-244, invoke_action of schedule_periodic:
\* periodic_state = action(periodic_state)
invoke_action_periodic(r, th) ==
  /\ Invocation(r, th, periodic_state[r])
  /\ periodic_state' = [periodic_state EXCEPT ![r] = action(@)]

\* lines 57-59, RxHandler.schedule: invoke_action()
DispatchSchedule(t) ==
  /\ posted[t] # << >>
  /\ Delivered(t).scheduling = SCHEDULE
  /\ event(t)
  /\ invoke_action(Delivered(t).r, Loop)
  /\ UNCHANGED << nreq, call, path, is_disposed, released, timer, periodic_state >>
  /\ UNCHANGED << faulted, disposeCalls, timers >>
  /\ UNCHANGED mergeVars

\* lines 61-63, RxHandler.schedule_relative: QTimer.singleShot(duetime_ms, invoke_action)
DispatchRelative(t) ==
  /\ posted[t] # << >>
  /\ Delivered(t).scheduling = SCHEDULE_RELATIVE
  /\ event(t)
  /\ timer' = [timer EXCEPT ![Delivered(t).r] = "active"]
  /\ UNCHANGED << nreq, call, path, is_disposed, released, periodic_state, invoked >>
  /\ UNCHANGED << faulted, disposeCalls, timers >>
  /\ UNCHANGED mergeVars

\* lines 65-72, RxHandler.schedule_periodic: a repeating QTimer is created,
\* stored in timer_ptr[0] and started
DispatchPeriodic(t) ==
  /\ posted[t] # << >>
  /\ Delivered(t).scheduling = SCHEDULE_PERIODIC
  /\ event(t)
  /\ timer' = [timer EXCEPT ![Delivered(t).r] = "active"]
  /\ UNCHANGED << nreq, call, path, is_disposed, released, periodic_state, invoked >>
  /\ UNCHANGED << faulted, disposeCalls, timers >>
  /\ UNCHANGED mergeVars

\* mutant of DispatchDispose: the slot is marked stopped whatever it holds
DispatchDispose_MarksEmptySlot(t) ==
  /\ posted[t] # << >>
  /\ Delivered(t).scheduling = DISPOSE
  /\ event(t)
  /\ timer' = [timer EXCEPT ![Delivered(t).r] = "stopped"]
  /\ UNCHANGED << nreq, call, path, is_disposed, released, periodic_state, invoked >>
  /\ UNCHANGED << faulted, disposeCalls, timers >>
  /\ UNCHANGED mergeVars

\* lines 74-79, RxHandler.dispose: timer_ptr[0].stop(); with timer_ptr[0]
\* still None the AttributeError is caught and nothing is done
DispatchDispose(t) ==
  /\ posted[t] # << >>
  /\ Delivered(t).scheduling = DISPOSE
  /\ event(t)
  /\ timer' = [timer EXCEPT ![Delivered(t).r] = IF @ = "none" THEN "none" ELSE "stopped"]
  /\ UNCHANGED << nreq, call, path, is_disposed, released, periodic_state, invoked >>
  /\ UNCHANGED << faulted, disposeCalls, timers >>
  /\ UNCHANGED mergeVars

\* line 63: the single-shot timer of request r fires on the loop thread
TimerFireSingleShot(r) ==
  /\ path[r] = SCHEDULE_RELATIVE
  /\ timer[r] = "active"
  /\ timer' = [timer EXCEPT ![r] = "fired"]
  /\ invoke_action(r, Loop)
  /\ UNCHANGED << nreq, call, path, is_disposed, released, posted, dispatched,
                  periodic_state >>
  /\ UNCHANGED << faulted, disposeCalls, timers >>
  /\ UNCHANGED mergeVars

\* line 70: the repeating timer of request r fires on the loop thread
TimerFirePeriodic(r) ==
  /\ path[r] = SCHEDULE_PERIODIC
  /\ timer[r] = "active"
  /\ Len(invoked[r]) < MaxFire
  /\ invoke_action_periodic(r, Loop)
  /\ UNCHANGED << nreq, call, path, is_disposed, released, posted, dispatched, timer >>
  /\ UNCHANGED << faulted, disposeCalls, timers >>
  /\ UNCHANGED mergeVars

QtNext ==
  \/ \E t \in Producers, s \in States : nreq < MaxReq /\ Schedule(t, s)
  \/ \E t \in Producers, d \in Delays, s \in States :
       nreq < MaxReq /\ ScheduleRelative(t, d, s)
  \/ \E t \in Producers, instant \in Times, now \in Times, s \in States :
       nreq < MaxReq /\ ScheduleAbsolute(t, instant, now, s)
  \/ \E t \in Producers, p \in Periods, s \in States :
       nreq < MaxReq /\ SchedulePeriodic(t, p, s)
  \/ \E r \in Requests, t \in Producers : ~released[r] /\ Release(r, t)
  \/ \E t \in Producers : DispatchSchedule(t)
  \/ \E t \in Producers : DispatchRelative(t)
  \/ \E t \in Producers : DispatchPeriodic(t)
  \/ \E t \in Producers : DispatchDispose(t)
  \/ \E r \in Requests : TimerFireSingleShot(r)
  \/ \E r \in Requests : TimerFirePeriodic(r)

\* the merge is left as constructed, with no sequence subscribed
QtInit0 == Init /\ max_concurrent = 0

SpecQt == QtInit0 /\ [][QtNext]_vars

\* one scheduling call more, with the delay, the period and the state fixed:
\* the order of the events of several calls
QtOrderNext ==
  \/ \E t \in Producers : nreq < MaxReq + 1 /\ Schedule(t, 0)
  \/ \E t \in Producers : nreq < MaxReq + 1 /\ ScheduleRelative(t, MaxDelay, 0)
  \/ \E t \in Producers : nreq < MaxReq + 1 /\ SchedulePeriodic(t, MaxDelay, 0)
  \/ \E r \in Requests, t \in Producers : ~released[r] /\ Release(r, t)
  \/ \E t \in Producers : DispatchSchedule(t)
  \/ \E t \in Producers : DispatchRelative(t)
  \/ \E t \in Producers : DispatchPeriodic(t)
  \/ \E t \in Producers : DispatchDispose(t)
  \/ \E r \in Requests : TimerFireSingleShot(r)
  \/ \E r \in Requests : TimerFirePeriodic(r)

SpecQtOrder == QtInit0 /\ [][QtOrderNext]_vars

\* the returned disposable is disposed up to MaxDispose times, by any thread;
\* the delay, the period and the state are fixed
QtReleaseNext ==
  \/ \E t \in Producers : nreq < MaxReq /\ Schedule(t, 0)
  \/ \E t \in Producers : nreq < MaxReq /\ ScheduleRelative(t, MaxDelay, 0)
  \/ \E t \in Producers : nreq < MaxReq /\ SchedulePeriodic(t, MaxDelay, 0)
  \/ \E r \in Requests, t \in Producers :
       disposeCalls[r] < MaxDispose /\ Release(r, t)
  \/ \E t \in Producers : DispatchSchedule(t)
  \/ \E t \in Producers : DispatchRelative(t)
  \/ \E t \in Producers : DispatchPeriodic(t)
  \/ \E t \in Producers : DispatchDispose(t)
  \/ \E r \in Requests : TimerFireSingleShot(r)
  \/ \E r \in Requests : TimerFirePeriodic(r)

SpecQtRelease == QtInit0 /\ [][QtReleaseNext]_vars

\* ---- a periodic action that raises ----------------------------------------
\* lines 242-244 with action(periodic_state) raising: the assignment to
\* periodic_state is not made and invoke_action has no handler, the exception
\* leaves it to the timer's caller; the slot (lines 67-72) is not touched.
\* The firing is entered in faulted
invoke_action_periodic_raises(r, th) ==
  /\ Invocation(r, th, periodic_state[r])
  /\ faulted' = [faulted EXCEPT ![r] = @ \cup {Len(invoked[r]) + 1}]
  /\ UNCHANGED periodic_state

\* mutant of TimerFirePeriodicRaises: the fault stops the timer
TimerFirePeriodicRaises_Stops(r) ==
  /\ path[r] = SCHEDULE_PERIODIC
  /\ timer[r] = "active"
  /\ Len(invoked[r]) < MaxFire
  /\ invoke_action_periodic_raises(r, Loop)
  /\ timer' = [timer EXCEPT ![r] = "stopped"]
  /\ UNCHANGED << nreq, call, path, is_disposed, released, posted, dispatched >>
  /\ UNCHANGED << disposeCalls, timers >>
  /\ UNCHANGED mergeVars

\* line 70: the repeating timer of request r fires and the action raises
TimerFirePeriodicRaises(r) ==
  /\ path[r] = SCHEDULE_PERIODIC
  /\ timer[r] = "active"
  /\ Len(invoked[r]) < MaxFire
  /\ invoke_action_periodic_raises(r, Loop)
  /\ UNCHANGED << nreq, call, path, is_disposed, released, posted, dispatched, timer >>
  /\ UNCHANGED << disposeCalls, timers >>
  /\ UNCHANGED mergeVars

QtFaultNext ==
  \/ QtNext
  \/ \E r \in Requests : TimerFirePeriodicRaises(r)

SpecQtFault == QtInit0 /\ [][QtFaultNext]_vars

\* ---- rx/concurrency/mainloopscheduler/qtthreadsafe.py: _QtScheduler --------
\* The legacy scheduler, on the same variables; path holds the tag posted by
\* the call, is_disposed is not used.  SCHEDULE_PERIODIC and DISPOSE are the
\* tags of lines 30-31; no call of _QtScheduler posts SCHEDULE_PERIODIC, so the
\* handler of lines 78-85 is never dispatched.
SCHEDULE_NOW == "N"
SCHEDULE_LATER == "L"

\* line 206, self.to_relative(duetime): the value in milliseconds (of a
\* datetime: the milliseconds of the instant).  d is in half milliseconds and
\* int() truncates towards zero
to_relative(d) == IF d >= 0 THEN d \div 2 ELSE 0 - ((0 - d) \div 2)

\* lines 178-195, schedule(action, state): SCHEDULE_NOW is posted
legacy_schedule(r, t) ==
  /\ path' = [path EXCEPT ![r] = SCHEDULE_NOW]
  /\ post_function(t, SCHEDULE_NOW, r, 0)

\* lines 197-226, schedule_relative(duetime, action, state)
legacy_schedule_relative(r, t, d) ==
  IF to_relative(d) = 0
    THEN legacy_schedule(r, t)
    ELSE /\ path' = [path EXCEPT ![r] = SCHEDULE_LATER]
         /\ post_function(t, SCHEDULE_LATER, r, to_relative(d))

LegacySchedule(t, s) ==
  /\ nreq' = nreq + 1
  /\ call' = [call EXCEPT ![nreq + 1] =
                [op |-> "schedule", thread |-> t, duetime |-> 0, now |-> 0, state |-> s]]
  /\ legacy_schedule(nreq + 1, t)
  /\ UNCHANGED << is_disposed, released, dispatched, timer, periodic_state, invoked >>
  /\ UNCHANGED << faulted, disposeCalls, timers >>
  /\ UNCHANGED mergeVars

LegacyScheduleRelative(t, d, s) ==
  /\ nreq' = nreq + 1
  /\ call' = [call EXCEPT ![nreq + 1] =
                [op |-> "schedule_relative", thread |-> t, duetime |-> d, now |-> 0, state |-> s]]
  /\ legacy_schedule_relative(nreq + 1, t, d)
  /\ UNCHANGED << is_disposed, released, dispatched, timer, periodic_state, invoked >>
  /\ UNCHANGED << faulted, disposeCalls, timers >>
  /\ UNCHANGED mergeVars

\* lines 228-239, schedule_absolute(duetime, action, state):
\* duetime = self.to_datetime(duetime);
\* return self.schedule_relative(duetime, action, state).
\* The instant is handed on as it is; self.now is not read
LegacyScheduleAbsolute(t, instant, now, s) ==
  /\ nreq' = nreq + 1
  /\ call' = [call EXCEPT ![nreq + 1] =
                [op |-> "schedule_absolute", thread |-> t, duetime |-> instant,
                 now |-> now, state |-> s]]
  /\ legacy_schedule_relative(nreq + 1, t, instant)
  /\ UNCHANGED << is_disposed, released, dispatched, timer, periodic_state, invoked >>
  /\ UNCHANGED << faulted, disposeCalls, timers >>
  /\ UNCHANGED mergeVars

\* lines 241-271, schedule_periodic(period, action, state).  Line 257 calls
\* action(scheduler, state) in the calling thread before anything is posted;
\* accepts tells whether the action takes two arguments: if it does not, the
\* call raises and schedule_periodic is left with nothing posted and no
\* disposable returned.  Line 269 posts SCHEDULE_LATER with the period
LegacySchedulePeriodic(t, p, s, accepts) ==
  /\ nreq' = nreq + 1
  /\ call' = [call EXCEPT ![nreq + 1] =
                [op |-> "schedule_periodic", thread |-> t, duetime |-> p, now |-> 0, state |-> s]]
  /\ Invocation(nreq + 1, t, s)
  /\ IF accepts
       THEN /\ periodic_state' = [periodic_state EXCEPT ![nreq + 1] = s]
            /\ path' = [path EXCEPT ![nreq + 1] = SCHEDULE_LATER]
            /\ post_function(t, SCHEDULE_LATER, nreq + 1, to_relative(p))
            /\ UNCHANGED faulted
       ELSE /\ faulted' = [faulted EXCEPT ![nreq + 1] = @ \cup {1}]
            /\ UNCHANGED << periodic_state, path, posted >>
  /\ UNCHANGED << is_disposed, released, dispatched, timer, disposeCalls, timers >>
  /\ UNCHANGED mergeVars

\* dispose() of lines 190-191, 221-222 and 266-267: self._post(DISPOSE, (timer_ptr,))
legacy_dispose(r, t) == post_function(t, DISPOSE, r, 0)

\* thread t disposes the disposable returned for request r (none is returned
\* by a call that raised); only the first call runs dispose()
LegacyRelease(r, t) ==
  /\ r <= nreq
  /\ path[r] # "none"
  /\ disposeCalls' = [disposeCalls EXCEPT ![r] = @ + 1]
  /\ IF released[r]
       THEN UNCHANGED << released, posted >>
       ELSE /\ released' = [released EXCEPT ![r] = TRUE]
            /\ legacy_dispose(r, t)
  /\ UNCHANGED << nreq, call, path, is_disposed, dispatched, timer, periodic_state,
                  invoked, faulted, timers >>
  /\ UNCHANGED mergeVars

\* lines 184-186 and 216-217, invoke_action of schedule and of
\* schedule_relative: the action is called with the state; lines 261-262,
\* invoke_action of schedule_periodic: periodic_state[0] = action(periodic_state[0])
legacy_invoke_action(r, th) ==
  IF call[r].op = "schedule_periodic"
    THEN /\ Invocation(r, th, periodic_state[r])
         /\ periodic_state' = [periodic_state EXCEPT ![r] = action(@)]
    ELSE /\ Invocation(r, th, call[r].state)
         /\ UNCHANGED periodic_state

\* lines 66-68 and 103-108, handler schedule_now: invoke_action()
LegacyDispatchNow(t) ==
  /\ posted[t] # << >>
  /\ Delivered(t).scheduling = SCHEDULE_NOW
  /\ event(t)
  /\ legacy_invoke_action(Delivered(t).r, Loop)
  /\ UNCHANGED << nreq, call, path, is_disposed, released, timer >>
  /\ UNCHANGED << faulted, disposeCalls, timers >>
  /\ UNCHANGED mergeVars

\* lines 70-76, handler schedule_later: a single-shot QTimer is created,
\* stored in timer_ptr[0] and started
LegacyDispatchLater(t) ==
  /\ posted[t] # << >>
  /\ Delivered(t).scheduling = SCHEDULE_LATER
  /\ event(t)
  /\ timer' = [timer EXCEPT ![Delivered(t).r] = "active"]
  /\ UNCHANGED << nreq, call, path, is_disposed, released, periodic_state, invoked >>
  /\ UNCHANGED << faulted, disposeCalls, timers >>
  /\ UNCHANGED mergeVars

\* lines 87-94, handler dispose: timer_ptr[0].stop(); with timer_ptr[0] still
\* None the AttributeError is caught
LegacyDispatchDispose(t) ==
  /\ posted[t] # << >>
  /\ Delivered(t).scheduling = DISPOSE
  /\ event(t)
  /\ timer' = [timer EXCEPT ![Delivered(t).r] = IF @ = "none" THEN "none" ELSE "stopped"]
  /\ UNCHANGED << nreq, call, path, is_disposed, released, periodic_state, invoked >>
  /\ UNCHANGED << faulted, disposeCalls, timers >>
  /\ UNCHANGED mergeVars

\* lines 73-74: the single-shot timer of request r times out once, on the
\* loop thread, and calls invoke_action
LegacyTimerFire(r) ==
  /\ timer[r] = "active"
  /\ timer' = [timer EXCEPT ![r] = "fired"]
  /\ legacy_invoke_action(r, Loop)
  /\ UNCHANGED << nreq, call, path, is_disposed, released, posted, dispatched >>
  /\ UNCHANGED << faulted, disposeCalls, timers >>
  /\ UNCHANGED mergeVars

LegacyNext ==
  \/ \E t \in Producers, s \in States : nreq < MaxReq /\ LegacySchedule(t, s)
  \/ \E t \in Producers, d \in Times, s \in States :
       nreq < MaxReq /\ LegacyScheduleRelative(t, d, s)
  \/ \E t \in Producers, instant \in Times, now \in Times, s \in States :
       nreq < MaxReq /\ LegacyScheduleAbsolute(t, instant, now, s)
  \/ \E t \in Producers, p \in Periods, s \in States, accepts \in BOOLEAN :
       nreq < MaxReq /\ LegacySchedulePeriodic(t, p, s, accepts)
  \/ \E r \in Requests, t \in Producers : ~released[r] /\ LegacyRelease(r, t)
  \/ \E t \in Producers : LegacyDispatchNow(t)
  \/ \E t \in Producers : LegacyDispatchLater(t)
  \/ \E t \in Producers : LegacyDispatchDispose(t)
  \/ \E r \in Requests : LegacyTimerFire(r)

SpecLegacy == QtInit0 /\ [][LegacyNext]_vars

\* ---- merge.py: merge with max_concurrent unset, lines 29-31 and 90-119 ----
\* max_concurrent is None: merge returns rx.merge(source, *args), which is
\* rx.from_iterable(sources).pipe(ops.merge_all()) (rx/internal/observable/
\* merge.py, lines 7-8).  The machine below is subscribe of _merge_all on the
\* variables of the bounded merge: the outer is the sequence of the sources,
\* Outer stands for m, active_count and queue are not used.  The inner
\* sequences' on_next and on_error (lines 108-109) are those of lines 54-55.
None == 0 - 1

MergeAllInit ==
  /\ max_concurrent = None
  /\ active_count = 0
  /\ group = {}
  /\ groupDisposed = FALSE
  /\ is_stopped = FALSE
  /\ queue = << >>
  /\ lock = NoOne
  /\ mpc = "start"
  /\ opc = "unsubscribed"
  /\ oarg = 0
  /\ otmp = 0
  /\ outerDisposed = FALSE
  /\ emittedInners = 0
  /\ kpc = "none"
  /\ karg = 0
  /\ ktmp = 0
  /\ ist = [i \in Inners |-> "unborn"]
  /\ emitted = [i \in Inners |-> 0]
  /\ subOrder = << >>
  /\ terminated = FALSE
  /\ downstream = << >>
  /\ QtInit

\* lines 113-116: if len(group) == 1
AllOuterCompletes == Cardinality(group) = 1

\* lines 105-106: if is_stopped[0] and len(group) == 1
AllInnerCompletes == is_stopped /\ Cardinality(group) = 1

\* lines 91-94: m = SingleAssignmentDisposable(); group.add(m)
AllGroupAddM ==
  /\ mpc = "start"
  /\ mpc' = "adding"
  /\ group' = GroupAdd(Outer)
  /\ UNCHANGED << max_concurrent, active_count, groupDisposed, is_stopped, queue,
                  lock, opc, oarg, otmp, outerDisposed, emittedInners, kpc, karg,
                  ktmp, ist, emitted, subOrder, terminated, downstream >>
  /\ UNCHANGED qtVars

\* lines 118-119: m.disposable = source.subscribe_(...); return group
AllSubscribeSource ==
  /\ mpc = "adding"
  /\ mpc' = "returned"
  /\ opc' = "idle"
  /\ outerDisposed' = (outerDisposed \/ groupDisposed)
  /\ UNCHANGED << max_concurrent, active_count, group, groupDisposed, is_stopped,
                  queue, lock, oarg, otmp, emittedInners, kpc, karg,
                  ktmp, ist, emitted, subOrder, terminated, downstream >>
  /\ UNCHANGED qtVars

\* lines 96-98, the outer's on_next(inner_source), no lock taken:
\* inner_subscription = SingleAssignmentDisposable(); group.add(inner_subscription)
AllOuterOnNext ==
  /\ opc = "idle"
  /\ ~outerDisposed
  /\ emittedInners < NumInner
  /\ emittedInners' = emittedInners + 1
  /\ oarg' = emittedInners + 1
  /\ group' = GroupAdd(emittedInners + 1)
  /\ ist' = [ist EXCEPT ![emittedInners + 1] = "arriving"]
  /\ opc' = "n_sub"
  /\ UNCHANGED << max_concurrent, active_count, groupDisposed, is_stopped, queue,
                  lock, mpc, otmp, outerDisposed, kpc, karg, ktmp, emitted,
                  subOrder, terminated, downstream >>
  /\ UNCHANGED qtVars

\* lines 110-111: inner_source.subscribe_(on_next, on_error, on_completed);
\* inner_subscription.disposable = disposable; on_next returns
AllOuterSubscribe ==
  /\ opc = "n_sub"
  /\ subOrder' = Append(subOrder, [xs |-> oarg, dequeued |-> FALSE])
  /\ ist' = [ist EXCEPT ![oarg] = IF groupDisposed THEN "disposed" ELSE "running"]
  /\ oarg' = 0
  /\ opc' = "idle"
  /\ UNCHANGED << max_concurrent, active_count, group, groupDisposed, is_stopped,
                  queue, lock, mpc, otmp, outerDisposed, emittedInners, kpc, karg,
                  ktmp, emitted, terminated, downstream >>
  /\ UNCHANGED qtVars

\* line 114, the outer's on_completed, no lock taken: is_stopped[0] = True
AllOuterOnCompleted ==
  /\ opc = "idle"
  /\ ~outerDisposed
  /\ is_stopped' = TRUE
  /\ opc' = "c_check"
  /\ UNCHANGED << max_concurrent, active_count, group, groupDisposed, queue, lock,
                  mpc, oarg, otmp, outerDisposed, emittedInners, kpc, karg, ktmp,
                  ist, emitted, subOrder, terminated, downstream >>
  /\ UNCHANGED qtVars

\* lines 115-116: if len(group) == 1: observer.on_completed()
AllOuterCheck ==
  /\ opc = "c_check"
  /\ opc' = "done"
  /\ IF AllOuterCompletes
       THEN ObserverTerminal(Ev("completed", Outer, 0), ist)
       ELSE UNCHANGED << downstream, terminated, group, groupDisposed,
                         outerDisposed, ist >>
  /\ UNCHANGED << max_concurrent, active_count, is_stopped, queue, lock, mpc, oarg,
                  otmp, emittedInners, kpc, karg, ktmp, emitted, subOrder >>
  /\ UNCHANGED qtVars

\* line 118: the outer's on_error is observer.on_error itself
AllOuterOnError ==
  /\ opc = "idle"
  /\ ~outerDisposed
  /\ opc' = "done"
  /\ ObserverTerminal(Ev("error", Outer, 0), ist)
  /\ UNCHANGED << max_concurrent, active_count, is_stopped, queue, lock, mpc, oarg,
                  otmp, emittedInners, kpc, karg, ktmp, emitted, subOrder >>
  /\ UNCHANGED qtVars

\* lines 102-104, an inner's on_completed: the lock is taken;
\* group.remove(inner_subscription)
AllInnerOnCompleted(i) ==
  /\ MayComplete(i)
  /\ lock = NoOne
  /\ lock' = i
  /\ ist' = [ist EXCEPT ![i] = "completing"]
  /\ group' = GroupRemove(i)
  /\ kpc' = "a_check"
  /\ UNCHANGED << max_concurrent, active_count, groupDisposed, is_stopped, queue,
                  mpc, opc, oarg, otmp, outerDisposed, emittedInners, karg, ktmp,
                  emitted, subOrder, terminated, downstream >>
  /\ UNCHANGED qtVars

\* mutant of AllInnerCheck: is_stopped is not looked at
AllInnerCheck_NoStopTest ==
  /\ kpc = "a_check"
  /\ kpc' = "none"
  /\ lock' = NoOne
  /\ IF AllOuterCompletes
       THEN ObserverTerminal(Ev("completed", lock, 0),
                             [ist EXCEPT ![lock] = "completed"])
       ELSE /\ ist' = [ist EXCEPT ![lock] = "completed"]
            /\ UNCHANGED << downstream, terminated, group, groupDisposed,
                            outerDisposed >>
  /\ UNCHANGED << max_concurrent, active_count, is_stopped, queue, mpc, opc, oarg,
                  otmp, emittedInners, karg, ktmp, emitted, subOrder >>
  /\ UNCHANGED qtVars

\* lines 105-106: if is_stopped[0] and len(group) == 1:
\* observer.on_completed(); then the lock is released
AllInnerCheck ==
  /\ kpc = "a_check"
  /\ kpc' = "none"
  /\ lock' = NoOne
  /\ IF AllInnerCompletes
       THEN ObserverTerminal(Ev("completed", lock, 0),
                             [ist EXCEPT ![lock] = "completed"])
       ELSE /\ ist' = [ist EXCEPT ![lock] = "completed"]
            /\ UNCHANGED << downstream, terminated, group, groupDisposed,
                            outerDisposed >>
  /\ UNCHANGED << max_concurrent, active_count, is_stopped, queue, mpc, opc, oarg,
                  otmp, emittedInners, karg, ktmp, emitted, subOrder >>
  /\ UNCHANGED qtVars

MergeAllNext ==
  \/ AllGroupAddM
  \/ AllSubscribeSource
  \/ AllOuterOnNext
  \/ AllOuterSubscribe
  \/ AllOuterOnCompleted
  \/ AllOuterCheck
  \/ AllOuterOnError
  \/ \E i \in Inners : InnerOnNext(i)
  \/ InnerOnNextReturn
  \/ \E i \in Inners : InnerOnError(i)
  \/ \E i \in Inners : AllInnerOnCompleted(i)
  \/ AllInnerCheck

SpecMergeAll == MergeAllInit /\ [][MergeAllNext]_vars

\* ---- rx/concurrency/mainloopscheduler/qtscheduler.py: QtScheduler ----------
\* The single-threaded scheduler, on the same variables: every call, firing
\* and dispose is made by the loop thread and runs to its end.  path holds the
\* kind of QTimer the call made, timers is self._timers; is_disposed, posted
\* and dispatched are not used.
SINGLE_SHOT == "T"
REPEATING == "F"

\* lines 18-27, _remove_and_stop_timer(qtimer): self._timers.remove(qtimer);
\* qtimer.stop(); qtimer.deleteLater(); a KeyError (the timer is not in the
\* set) is passed over.  tm is timer as the caller leaves it
remove_and_stop_timer(r, tm) ==
  IF r \in timers
    THEN /\ timers' = timers \ {r}
         /\ timer' = [tm EXCEPT ![r] = IF @ = "active" THEN "stopped" ELSE @]
    ELSE /\ timers' = timers
         /\ timer' = tm

\* lines 33-63, schedule_relative(duetime, action, state): a single-shot
\* QTimer is made, added to self._timers and started (schedule, lines 29-31,
\* is schedule_relative(0.0, ...))
QtsScheduleRelative(d, s) ==
  /\ nreq' = nreq + 1
  /\ call' = [call EXCEPT ![nreq + 1] =
                [op |-> "schedule_relative", thread |-> Loop, duetime |-> d, now |-> 0, state |-> s]]
  /\ path' = [path EXCEPT ![nreq + 1] = SINGLE_SHOT]
  /\ timers' = timers \cup {nreq + 1}
  /\ timer' = [timer EXCEPT ![nreq + 1] = "active"]
  /\ UNCHANGED << is_disposed, released, posted, dispatched, periodic_state,
                  invoked, faulted, disposeCalls >>
  /\ UNCHANGED mergeVars

\* lines 81-116, schedule_periodic(period, action, state): a repeating QTimer
\* is made, started and added to self._timers
QtsSchedulePeriodic(p, s) ==
  /\ nreq' = nreq + 1
  /\ call' = [call EXCEPT ![nreq + 1] =
                [op |-> "schedule_periodic", thread |-> Loop, duetime |-> p, now |-> 0, state |-> s]]
  /\ path' = [path EXCEPT ![nreq + 1] = REPEATING]
  /\ periodic_state' = [periodic_state EXCEPT ![nreq + 1] = s]
  /\ timer' = [timer EXCEPT ![nreq + 1] = "active"]
  /\ timers' = timers \cup {nreq + 1}
  /\ UNCHANGED << is_disposed, released, posted, dispatched, invoked, faulted,
                  disposeCalls >>
  /\ UNCHANGED mergeVars

\* mutant of QtsTimerFireSingleShot: the timer is left in the set
QtsTimerFireSingleShot_KeepsTimer(r) ==
  /\ path[r] = SINGLE_SHOT
  /\ timer[r] = "active"
  /\ Invocation(r, Loop, call[r].state)
  /\ timer' = [timer EXCEPT ![r] = "fired"]
  /\ UNCHANGED << nreq, call, path, is_disposed, released, posted, dispatched,
                  periodic_state, faulted, disposeCalls, timers >>
  /\ UNCHANGED mergeVars

\* lines 49-51, invoke_action, called by the single-shot timer's timeout:
\* sad.disposable = action(scheduler, state);
\* self._remove_and_stop_timer(timer)
QtsTimerFireSingleShot(r) ==
  /\ path[r] = SINGLE_SHOT
  /\ timer[r] = "active"
  /\ Invocation(r, Loop, call[r].state)
  /\ remove_and_stop_timer(r, [timer EXCEPT ![r] = "fired"])
  /\ UNCHANGED << nreq, call, path, is_disposed, released, posted, dispatched,
                  periodic_state, faulted, disposeCalls >>
  /\ UNCHANGED mergeVars

\* lines 49-51 with action(scheduler, state) raising: line 51 is not reached,
\* the timer, which has fired, stays in self._timers
QtsTimerFireSingleShotRaises(r) ==
  /\ path[r] = SINGLE_SHOT
  /\ timer[r] = "active"
  /\ Invocation(r, Loop, call[r].state)
  /\ faulted' = [faulted EXCEPT ![r] = @ \cup {Len(invoked[r]) + 1}]
  /\ timer' = [timer EXCEPT ![r] = "fired"]
  /\ UNCHANGED << nreq, call, path, is_disposed, released, posted, dispatched,
                  periodic_state, disposeCalls, timers >>
  /\ UNCHANGED mergeVars

\* lines 102-104, interval, called by the repeating timer's timeout:
\* periodic_state = action(periodic_state)
QtsTimerFirePeriodic(r) ==
  /\ path[r] = REPEATING
  /\ timer[r] = "active"
  /\ Len(invoked[r]) < MaxFire
  /\ Invocation(r, Loop, periodic_state[r])
  /\ periodic_state' = [periodic_state EXCEPT ![r] = action(@)]
  /\ UNCHANGED << nreq, call, path, is_disposed, released, posted, dispatched,
                  timer, faulted, disposeCalls, timers >>
  /\ UNCHANGED mergeVars

\* lines 102-104 with action(periodic_state) raising: periodic_state is not
\* assigned
QtsTimerFirePeriodicRaises(r) ==
  /\ path[r] = REPEATING
  /\ timer[r] = "active"
  /\ Len(invoked[r]) < MaxFire
  /\ Invocation(r, Loop, periodic_state[r])
  /\ faulted' = [faulted EXCEPT ![r] = @ \cup {Len(invoked[r]) + 1}]
  /\ UNCHANGED << nreq, call, path, is_disposed, released, posted, dispatched,
                  timer, periodic_state, disposeCalls, timers >>
  /\ UNCHANGED mergeVars

\* the disposable returned (lines 63, 116) is disposed: dispose() of lines
\* 60-61 and 113-114 is self._remove_and_stop_timer(timer); only the first
\* call of a Disposable runs it
QtsRelease(r) ==
  /\ r <= nreq
  /\ disposeCalls' = [disposeCalls EXCEPT ![r] = @ + 1]
  /\ IF released[r]
       THEN UNCHANGED << released, timers, timer >>
       ELSE /\ released' = [released EXCEPT ![r] = TRUE]
            /\ remove_and_stop_timer(r, timer)
  /\ UNCHANGED << nreq, call, path, is_disposed, posted, dispatched,
                  periodic_state, invoked, faulted >>
  /\ UNCHANGED mergeVars

\* up to MaxReq + 1 calls; the delay, the period and the state are fixed
QtsNext ==
  \/ nreq < MaxReq + 1 /\ QtsScheduleRelative(MaxDelay, 0)
  \/ nreq < MaxReq + 1 /\ QtsSchedulePeriodic(MaxDelay, 0)
  \/ \E r \in Requests : QtsTimerFireSingleShot(r)
  \/ \E r \in Requests : QtsTimerFireSingleShotRaises(r)
  \/ \E r \in Requests : QtsTimerFirePeriodic(r)
  \/ \E r \in Requests : QtsTimerFirePeriodicRaises(r)
  \/ \E r \in Requests : disposeCalls[r] < MaxDispose /\ QtsRelease(r)

SpecQts == QtInit0 /\ [][QtsNext]_vars

\* ==== claims ================================================================

\* inner sequences on which xs.subscribe_ has been called and whose completion
\* or error has not yet been signalled, nor their subscription released
Active == { i \in Inners : ist[i] = "running" }

\* the inner sequence has signalled its completion: its on_completed has
\* been entered (lines 43-52 are running or have run)
HasCompleted(i) == ist[i] \in {"completing", "completed"}

\* C1: in every reachable state 0 <= active_count <= max_concurrent.
C1_ActiveCountInRange == 0 <= active_count /\ active_count <= max_concurrent

\* C1, upper half alone: active_count never exceeds max_concurrent.
C1_UpperBound == active_count <= max_concurrent

\* C2: the number of inner sequences that are subscribed and have not yet
\* completed never exceeds max_concurrent.
C2_AtMostMaxConcurrentActive == Cardinality(Active) <= max_concurrent

\* number of events of one kind delivered downstream
Count(kind) ==
  Cardinality({ n \in 1..Len(downstream) : downstream[n].kind = kind })

\* the outer has completed (lines 65-68 have run to their end), every inner
\* sequence it emitted has completed (its on_completed has run to its end)
\* and no error was signalled
AllCompleted ==
  /\ opc = "done"
  /\ is_stopped
  /\ lock = NoOne
  /\ \A i \in Inners : ist[i] = (IF i <= emittedInners THEN "completed" ELSE "unborn")

\* C3: in an error-free run in which the outer and every inner sequence it
\* emitted complete, downstream on_completed is delivered exactly once.
C3_CompletedExactlyOnce == AllCompleted => Count("completed") = 1

\* the step delivers completion downstream
CompletionFires == Count("completed")' > Count("completed")

\* inner sequences the outer has emitted that are queued and not subscribed
Pending == { i \in Inners : ist[i] \in {"arriving", "queued"} }

\* C4: whenever completion is delivered downstream, the outer has stopped,
\* active_count is 0 and the queue is empty; no inner sequence is running or
\* still queued at that moment.
C4_CompletionOnlyWhenDrained ==
  [][CompletionFires =>
       /\ is_stopped' /\ active_count' = 0 /\ queue' = << >>
       /\ Active = {} /\ Pending = {}]_vars

\* C4, the part the code tests: completion is delivered only when the outer
\* has stopped and active_count is 0.
C4_CompletionOnlyWhenCounted ==
  [][CompletionFires => is_stopped' /\ active_count' = 0]_vars

\* an inner sequence has signalled an error to the merge
InnerErrored == \E i \in Inners : ist[i] = "errored"

C7_IgnoredAfterError ==
  [][Count("error") > 0 =>
       /\ subOrder' = subOrder
       /\ Len(queue') <= Len(queue)]_vars

\* C8: the inner sequences subscribed from the queue are subscribed in the
\* order the outer emitted them: when one is subscribed from the queue, no
\* inner sequence emitted before it is still waiting, and those subscribed
\* from the queue earlier were emitted earlier.
C8_QueueIsFifo ==
  \A q \in 1..Len(subOrder) :
    subOrder[q].dequeued =>
      /\ \A i \in Inners : i < subOrder[q].xs => ist[i] # "queued"
      /\ \A p \in 1..(q - 1) :
           subOrder[p].dequeued => subOrder[p].xs < subOrder[q].xs

\* C8 is reached: two inner sequences were queued and both were subscribed
\* from the queue.
C8_Witness ==
  \E p, q \in 1..Len(subOrder) :
    p < q /\ subOrder[p].dequeued /\ subOrder[q].dequeued

\* the inner sequences on which xs.subscribe_ has been called
Subscribed == { subOrder[q].xs : q \in 1..Len(subOrder) }

\* the sources of the values delivered downstream, in order of delivery
NextEvents == SelectSeq(downstream, LAMBDA e : e.kind = "next")

\* C9: with max_concurrent = 1 the merge is a sequential concatenation: at
\* most one inner sequence is subscribed at a time, an inner sequence is
\* subscribed only after every inner sequence emitted before it has
\* signalled its completion, and the values reach downstream in outer
\* emission order.
C9_SequentialConcat ==
  (max_concurrent = 1 /\ ~terminated) =>
    /\ Cardinality(Active) <= 1
    /\ \A j \in Subscribed : \A i \in Inners : i < j => HasCompleted(i)
    /\ \A p, q \in 1..Len(NextEvents) :
         p < q => NextEvents[p].src <= NextEvents[q].src

\* ---- the scenario of three inner sequences A, B, C under a cap of 2 -------
A == 1
B == 2
C == 3

\* the outer has handed over C and its on_next has returned
CHandedOver ==
  /\ emittedInners = C
  /\ opc \notin {"n_load", "n_store", "n_sub", "n_append"}

ScenarioInit == Init /\ max_concurrent = 2

\* the outer emits A, B, C and then completes; A and B stay subscribed until
\* C has been handed over; no sequence fails
ScenarioNext ==
  \/ SubscribeSource
  \/ GroupAddOuter
  \/ (emittedInners < C /\ OuterOnNext)
  \/ OuterLoad
  \/ OuterStore
  \/ OuterSubscribe
  \/ OuterAppend
  \/ (CHandedOver /\ OuterOnCompleted)
  \/ OuterCheck
  \/ \E i \in Inners : InnerOnNext(i)
  \/ InnerOnNextReturn
  \/ \E i \in Inners : (CHandedOver /\ InnerOnCompleted(i))
  \/ InnerTestQueue
  \/ InnerSubscribeNext
  \/ InnerLoad
  \/ InnerStore
  \/ InnerCheck

SpecScenario == ScenarioInit /\ [][ScenarioNext]_vars

\* xs.subscribe_ has been called on i, from line 61 (on arrival) or from
\* line 48 (out of the queue)
SubscribedOnArrival(i) ==
  \E q \in 1..Len(subOrder) : subOrder[q] = [xs |-> i, dequeued |-> FALSE]
SubscribedFromQueue(i) ==
  \E q \in 1..Len(subOrder) : subOrder[q] = [xs |-> i, dequeued |-> TRUE]

\* C10: with max_concurrent = 2 and an outer that emits A, B, C and then
\* completes: A and B are subscribed on arrival and C is queued; once A has
\* completed while B has not, C has been subscribed out of the queue;
\* completion is delivered downstream only after B and C have completed,
\* and it has been delivered once the outer, A, B and C have all completed.
C10_ScenarioABC ==
  /\ ist[A] # "queued" /\ ~SubscribedFromQueue(A)
  /\ ist[B] # "queued" /\ ~SubscribedFromQueue(B)
  /\ ~SubscribedOnArrival(C)
  /\ (CHandedOver /\ ist[A] = "running" /\ ist[B] = "running")
       => (ist[C] = "queued" /\ queue = << C >>)
  /\ (ist[A] = "completed" /\ ist[B] = "running") => SubscribedFromQueue(C)
  /\ Count("completed") >= 1 => (HasCompleted(B) /\ HasCompleted(C))
  /\ (emittedInners = C /\ AllCompleted) => Count("completed") = 1

\* C10 is reached: A completed before B, C was subscribed out of the queue
\* and has completed, the outer has completed, and completion is still held
\* back because B is running.
C10_Witness ==
  /\ ist[A] = "completed" /\ ist[B] = "running" /\ ist[C] = "completed"
  /\ SubscribedFromQueue(C)
  /\ opc = "done"
  /\ Count("completed") = 0

\* C11: no two downstream calls execute at the same time: while an inner
\* sequence's on_next call to downstream is executing (under source.lock), no
\* other event is delivered downstream.
C11_DownstreamCallsExclusive == [][kpc = "k_next" => downstream' = downstream]_vars

\* the step calls xs.subscribe_ on an inner sequence taken out of the queue
SubscribesDequeued ==
  /\ Len(subOrder') > Len(subOrder)
  /\ subOrder'[Len(subOrder')].dequeued

\* C12: the thread that invokes xs.subscribe_ on a newly admitted inner
\* sequence does not hold source.lock, also when the inner sequence is taken
\* out of the queue inside another inner sequence's on_completed.
C12_NoSubscribeUnderLock == [][SubscribesDequeued => lock = NoOne]_vars

\* ---- values forwarded: two inner sequences, three values ------------------
\* the outer emits at most two inner sequences, which emit up to MaxVals + 2
\* values; everything else as in Next
ValuesNext ==
  \/ SubscribeSource
  \/ GroupAddOuter
  \/ (emittedInners < 2 /\ OuterOnNext)
  \/ OuterLoad
  \/ OuterStore
  \/ OuterSubscribe
  \/ OuterAppend
  \/ OuterOnCompleted
  \/ OuterCheck
  \/ OuterOnError
  \/ \E i \in Inners : (EmittedUpTo(NumInner) < MaxVals + 2 /\ inner_on_next(i))
  \/ InnerOnNextReturn
  \/ \E i \in Inners : InnerOnError(i)
  \/ \E i \in Inners : InnerOnCompleted(i)
  \/ InnerTestQueue
  \/ InnerSubscribeNext
  \/ InnerLoad
  \/ InnerStore
  \/ InnerCheck

SpecValues == Init /\ [][ValuesNext]_vars

\* the values of inner sequence i delivered downstream, in order of delivery
NextFrom(i) == SelectSeq(downstream, LAMBDA e : e.kind = "next" /\ e.src = i)

\* C13: the values of an inner sequence reach downstream once each and in
\* the order the inner sequence emitted them (the n-th delivered is the n-th
\* emitted), and before termination every value emitted has been delivered.
C13_EveryValueForwardedOnce ==
  \A i \in Inners :
    /\ \A n \in 1..Len(NextFrom(i)) : NextFrom(i)[n].val = n
    /\ Len(NextFrom(i)) <= emitted[i]
    /\ ~terminated => Len(NextFrom(i)) = emitted[i]

\* C13 is reached: before termination one inner sequence has emitted two
\* values and another one a value in between, all three delivered.
C13_Witness ==
  /\ ~terminated
  /\ \E i, j \in Inners :
       /\ i # j /\ emitted[i] = 2 /\ emitted[j] = 1
       /\ Len(downstream) = 3
       /\ downstream[1].src = i /\ downstream[2].src = j /\ downstream[3].src = i

\* ---- QtThreadSafeScheduler ------------------------------------------------
\* the events of request r delivered to the handler so far
DispatchedOf(r) == SelectSeq(dispatched, LAMBDA e : e.r = r)

\* C14: every action is invoked on the loop thread, and only after the event
\* its scheduling call posted was dispatched; no event is dispatched twice or
\* is both dispatched and still waiting; the events of one producer thread
\* are dispatched in the order that thread posted them.
C14_OnLoopOnceInOrder ==
  /\ \A r \in Requests :
       /\ \A k \in 1..Len(invoked[r]) : invoked[r][k].thread = Loop
       /\ invoked[r] # << >> =>
            \E n \in 1..Len(dispatched) :
              dispatched[n].r = r /\ dispatched[n].scheduling = path[r]
  /\ \A p, q \in 1..Len(dispatched) :
       (p < q /\ dispatched[p].from = dispatched[q].from)
         => dispatched[p].n < dispatched[q].n
  /\ \A t \in Producers : \A k \in 1..Len(posted[t]) :
       \A n \in 1..Len(dispatched) :
         dispatched[n].from = t => dispatched[n].n < posted[t][k].n

\* C14 is reached: two events of one thread were dispatched with an event of
\* the other thread in between, and an action has been invoked.
C14_Witness ==
  /\ \E p, q, u \in 1..Len(dispatched) :
       /\ p < q /\ q < u
       /\ dispatched[p].from = dispatched[u].from
       /\ dispatched[q].from # dispatched[p].from
  /\ \E r \in Requests : invoked[r] # << >>

\* C15: an action scheduled with schedule is not invoked once its disposable
\* has been disposed (dispose before the loop dispatches the event).
C15_ReleasedNeverInvoked ==
  [][\A r \in Requests :
       (call[r].op = "schedule" /\ released[r]) => invoked'[r] = invoked[r]]_vars

\* C16: an action scheduled with schedule_relative and a positive delay is
\* not invoked once its disposable has been disposed, whatever thread
\* disposed it and also when the timer already exists; it is invoked at most
\* once.
C16_RelativeReleasedNeverInvoked ==
  [][\A r \in Requests :
       (call[r].op = "schedule_relative" /\ call[r].duetime > 0) =>
          /\ released[r] => invoked'[r] = invoked[r]
          /\ Len(invoked'[r]) <= 1]_vars

\* C16 is reached: the disposable was disposed after the timer was created
\* and the timer has then fired without the action being invoked.
C16_Witness ==
  \E r \in Requests :
    /\ call[r].op = "schedule_relative" /\ call[r].duetime > 0
    /\ released[r]
    /\ timer[r] = "fired"
    /\ invoked[r] = << >>

\* C17: schedule_relative with a delay of 0 does what schedule does: the
\* event SCHEDULE is posted and no other, no timer is created, the token is
\* the one of schedule (its dispose leaves is_disposed as schedule's does),
\* and the action is invoked at the dispatch of that event, on the loop
\* thread, with the state given.
C17_ZeroDelayIsSchedule ==
  \A r \in Requests :
    (call[r].op = "schedule_relative" /\ call[r].duetime = 0) =>
      /\ path[r] = SCHEDULE
      /\ timer[r] = "none"
      /\ ~is_disposed[r]
      /\ \A t \in Producers : \A k \in 1..Len(posted[t]) :
           posted[t][k].r = r =>
             (posted[t][k].scheduling = SCHEDULE /\ posted[t][k].from = call[r].thread)
      /\ \A k \in 1..Len(DispatchedOf(r)) : DispatchedOf(r)[k].scheduling = SCHEDULE
      /\ Len(invoked[r]) <= Len(DispatchedOf(r))
      /\ \A k \in 1..Len(invoked[r]) :
           invoked[r][k] = [thread |-> Loop, arg |-> call[r].state]

\* C17 is reached: an action scheduled with a delay of 0 was invoked.
C17_Witness ==
  \E r \in Requests :
    /\ call[r].op = "schedule_relative" /\ call[r].duetime = 0
    /\ call[r].state = MaxState
    /\ Len(invoked[r]) = 1

\* C18: schedule_relative with a negative delay posts SCHEDULE and creates no
\* timer, as for a delay of 0.
C18_NegativeDelayIsSchedule ==
  \A r \in Requests :
    (call[r].op = "schedule_relative" /\ call[r].duetime < 0) =>
      (path[r] = SCHEDULE /\ timer[r] = "none")

\* C19: a periodic action whose disposable is not disposed keeps its timer
\* (the timer, once started, stays active), the first firing calls action
\* with the state given, and each later firing with the value the firing
\* before it returned.
C19_PeriodicThreadsState ==
  \A r \in Requests :
    call[r].op = "schedule_periodic" =>
      /\ (~released[r] /\ timer[r] # "none") => timer[r] = "active"
      /\ \A k \in 1..Len(invoked[r]) :
           invoked[r][k].arg =
             IF k = 1 THEN call[r].state ELSE action(invoked[r][k - 1].arg)

\* C19 is reached: a periodic action that was never disposed has fired
\* MaxFire times.
C19_Witness ==
  \E r \in Requests :
    /\ call[r].op = "schedule_periodic"
    /\ ~released[r]
    /\ call[r].state = MaxState
    /\ Len(invoked[r]) = MaxFire
    /\ timer[r] = "active"

\* C20: once dispose has been called on the disposable of a periodic action,
\* the action is not invoked again.
C20_PeriodicReleasedNeverInvoked ==
  [][\A r \in Requests :
       (call[r].op = "schedule_periodic" /\ released[r])
         => invoked'[r] = invoked[r]]_vars

\* the DISPOSE events posted for request r, waiting or dispatched
DisposeEvents(r) ==
  Cardinality({ n \in 1..Len(dispatched) :
                  dispatched[n].r = r /\ dispatched[n].scheduling = DISPOSE })
  + Cardinality({ e \in UNION { { posted[t][k] : k \in 1..Len(posted[t]) } : t \in Producers } :
                    e.r = r /\ e.scheduling = DISPOSE })

\* C21: a dispose call on a disposable that was already disposed changes
\* nothing (no event posted, no flag, timer or slot changed), and at most
\* one DISPOSE event is ever posted for one returned disposable.
C21_DisposeIdempotent ==
  [][\A r \in Requests :
       /\ (released[r] /\ disposeCalls'[r] # disposeCalls[r]) =>
            UNCHANGED << nreq, call, path, is_disposed, released, posted,
                         dispatched, timer, periodic_state, invoked, faulted >>
       /\ DisposeEvents(r)' <= 1]_vars

\* C21 is reached: the disposable of a periodic action was disposed
\* MaxDispose times, one DISPOSE event was dispatched and stopped the timer.
C21_Witness ==
  \E r \in Requests :
    /\ call[r].op = "schedule_periodic"
    /\ disposeCalls[r] = MaxDispose
    /\ DisposeEvents(r) = 1
    /\ timer[r] = "stopped"

\* the step dispatches the DISPOSE event that thread t posted first
DispatchesDispose(t) ==
  /\ posted[t] # << >>
  /\ Head(posted[t]).scheduling = DISPOSE
  /\ dispatched' = Append(dispatched, Head(posted[t]))

\* C22: when the handler dispatches a DISPOSE event, the timer slot it
\* carries has been filled: the event that creates the timer was dispatched
\* before.
C22_SlotFilledBeforeDispose ==
  [][\A t \in Producers :
       DispatchesDispose(t) => timer[Head(posted[t]).r] # "none"]_vars

\* C22, for a disposable disposed by the thread that made the scheduling
\* call: the slot has been filled when its DISPOSE event is dispatched.
C22_SlotFilledSameThread ==
  [][\A t \in Producers :
       (DispatchesDispose(t) /\ call[Head(posted[t]).r].thread = t)
         => timer[Head(posted[t]).r] # "none"]_vars

\* C23: the handler dispatching a DISPOSE event whose slot is empty changes
\* no slot, no timer, no flag and invokes nothing; the event is consumed and
\* the events behind it stay in place for the next dispatch.
C23_EmptySlotDisposeIgnored ==
  [][\A t \in Producers :
       (DispatchesDispose(t) /\ timer[Head(posted[t]).r] = "none") =>
          /\ UNCHANGED << timer, invoked, periodic_state, is_disposed, released >>
          /\ posted' = [posted EXCEPT ![t] = Tail(@)]]_vars

\* C23 is reached: a DISPOSE event found its slot empty, and the event that
\* creates the timer was dispatched after it and started the timer.
C23_Witness ==
  \E r \in Requests : \E m, n \in 1..Len(dispatched) :
    /\ m < n
    /\ dispatched[m].r = r /\ dispatched[m].scheduling = DISPOSE
    /\ dispatched[n].r = r /\ dispatched[n].scheduling = SCHEDULE_PERIODIC
    /\ timer[r] = "active"

\* C24: schedule_absolute(instant, action, state) does what
\* schedule_relative(instant - now, action, state) does, in the thread-safe
\* scheduler and in the legacy one: the delay handed on is instant - now.
C24_AbsoluteIsRelativeOfDifference ==
  [][(nreq' = nreq + 1 /\ call'[nreq'].op = "schedule_absolute")
       => \/ schedule_relative(nreq', call'[nreq'].thread,
                               call'[nreq'].duetime - call'[nreq'].now)
          \/ legacy_schedule_relative(nreq', call'[nreq'].thread,
                                      call'[nreq'].duetime - call'[nreq'].now)]_vars

\* C24, the thread-safe scheduler alone: the call does what
\* schedule_relative(instant - now) does.
C24_AbsoluteIsRelativeOfDifference_ThreadSafe ==
  [][(nreq' = nreq + 1 /\ call'[nreq'].op = "schedule_absolute")
       => schedule_relative(nreq', call'[nreq'].thread,
                            call'[nreq'].duetime - call'[nreq'].now)]_vars

\* the steps of an inner sequence's on_completed: the callback position moves
CompletionStep == kpc' # kpc /\ (kpc \in {"k_test", "k_sub", "k_load", "k_store", "k_check"}
                                 \/ kpc' = "k_test")

\* C25: in the bounded merge, an inner's on_completed that finds the queue
\* non-empty takes its head and subscribes it, leaving active_count as it is;
\* it writes active_count, one less than it read, only after finding the queue
\* empty; in both cases the completed inner has left the group.
C25_CompletedSlotReused ==
  [][CompletionStep =>
       /\ (kpc = "k_test" /\ queue # << >>)
            => /\ kpc' = "k_sub" /\ karg' = Head(queue) /\ queue' = Tail(queue)
               /\ active_count' = active_count
       /\ (kpc = "k_test" /\ queue = << >>)
            => kpc' = "k_load" /\ queue' = queue /\ subOrder' = subOrder
       /\ kpc = "k_sub"
            => /\ subOrder' = Append(subOrder, [xs |-> karg, dequeued |-> TRUE])
               /\ active_count' = active_count
               /\ kpc' = "none"
       /\ active_count' # active_count
            => kpc = "k_store" /\ active_count' = ktmp - 1
       /\ kpc' = "k_store" => kpc = "k_load" /\ ktmp' = active_count
       /\ kpc' = "k_load" => kpc = "k_test"
       /\ kpc' \in {"k_test", "k_sub", "k_load", "k_store", "k_check"}
            => lock' \in Inners /\ lock' \notin group'
       /\ kpc' = "none" => lock \notin group']_vars

\* an inner taken from the queue by a completing inner has itself completed,
\* finding the queue empty, and active_count is back to 0
C25_Witness ==
  /\ \E n \in DOMAIN subOrder :
       subOrder[n].dequeued /\ ist[subOrder[n].xs] = "completed"
  /\ active_count = 0
  /\ ~terminated

\* no error has been signalled downstream
NoError == \A n \in 1..Len(downstream) : downstream[n].kind # "error"

\* the outer's on_completed has returned, no inner sequence is subscribed and
\* no callback is running: nothing is left that takes an element from the queue
Settled ==
  /\ opc = "done" /\ is_stopped
  /\ lock = NoOne /\ kpc = "none"
  /\ \A i \in Inners : ist[i] \notin {"running", "completing"}

\* C26: in the bounded merge with max_concurrent >= 1, in an error-free run
\* whose subscribed inner sequences all complete, no inner sequence the outer
\* emitted is left in the queue: once the outer has completed and every
\* subscribed inner has completed, none is queued.
C26_NoInnerLeftQueued ==
  (max_concurrent >= 1 /\ NoError /\ Settled) => Pending = {}

\* no callback of the merge is running: subscribe has returned, the outer is
\* between two calls and no inner callback holds the lock
Quiet ==
  /\ mpc = "returned"
  /\ opc \in {"idle", "done"}
  /\ lock = NoOne /\ kpc = "none"

\* C27: in the bounded merge, while no callback of the merge is running and
\* the group has not been disposed, the inner subscriptions in the group are
\* as many as active_count says and each belongs to an inner sequence that is
\* subscribed and has not completed; the outer's subscription is in the group.
C27_GroupHoldsRunningInners ==
  (Quiet /\ ~groupDisposed) =>
    /\ Cardinality(group \ {Outer}) = active_count
    /\ \A i \in group \ {Outer} : ist[i] = "running"
    /\ \A i \in Inners : ist[i] = "running" => i \in group
    /\ (~outerDisposed => Outer \in group)

\* C27, without the count: the group holds the outer's subscription and
\* exactly the inner subscriptions of the sequences that are running.
C27_GroupIsOuterAndRunning ==
  (Quiet /\ ~groupDisposed) =>
    /\ group \ {Outer} = { i \in Inners : ist[i] = "running" }
    /\ (~outerDisposed => Outer \in group)

\* C28: with max_concurrent unset, every inner sequence is subscribed in the
\* outer's on_next that received it and nothing is queued; downstream
\* on_completed is delivered only when the outer has completed and the group
\* holds m alone, with no inner sequence running, and in an error-free run it
\* has been delivered once the outer has completed and no inner remains.
C28_UnboundedMergeAll ==
  /\ [](/\ queue = << >>
        /\ \A i \in Inners :
             /\ ist[i] # "queued"
             /\ ist[i] = "arriving" => (opc = "n_sub" /\ oarg = i)
        /\ \A n \in DOMAIN subOrder : ~subOrder[n].dequeued
        /\ (NoError /\ opc = "done" /\ lock = NoOne /\ Active = {})
             => Count("completed") = 1)
  /\ [][CompletionFires =>
         /\ is_stopped /\ group = {Outer}
         /\ Active = {}]_vars

\* the outer has emitted at least two sequences and completed before the last
\* of them; completion was delivered by that inner's on_completed
C28_Witness ==
  /\ max_concurrent = None
  /\ emittedInners >= 2
  /\ \A n \in DOMAIN subOrder : ~subOrder[n].dequeued
  /\ \A i \in 1..emittedInners : ist[i] = "completed"
  /\ \E n \in DOMAIN downstream :
       downstream[n].kind = "completed" /\ downstream[n].src # Outer

\* the step is a firing of request r's periodic action that raises
RaisesAt(r) == faulted'[r] # faulted[r]

\* C29: a periodic action that raises in a firing is called once in that
\* firing, the retained state keeps the value it had before the firing, the
\* timer stays as it was, and the next firing calls the action with that same
\* state.
C29_PeriodicFaultKeepsState ==
  /\ [][\A r \in Requests :
          (call[r].op = "schedule_periodic" /\ RaisesAt(r)) =>
             /\ Len(invoked'[r]) = Len(invoked[r]) + 1
             /\ periodic_state'[r] = periodic_state[r]
             /\ timer'[r] = timer[r] /\ timer[r] = "active"
             /\ posted' = posted]_vars
  /\ [](\A r \in Requests : call[r].op = "schedule_periodic" =>
          \A k \in 1..Len(invoked[r]) :
             /\ invoked[r][k].thread = Loop
             /\ invoked[r][k].arg =
                  IF k = 1 THEN call[r].state
                  ELSE IF (k - 1) \in faulted[r] THEN invoked[r][k - 1].arg
                       ELSE action(invoked[r][k - 1].arg))

\* the first firing raised and the action was called again, with the state of
\* the first firing, the timer still running
C29_Witness ==
  \E r \in Requests :
    /\ call[r].op = "schedule_periodic"
    /\ 1 \in faulted[r]
    /\ Len(invoked[r]) >= 2
    /\ invoked[r][2].arg = invoked[r][1].arg
    /\ timer[r] = "active"

\* every call of request r's action was made by the loop thread
OnLoopOnly(r) == \A k \in 1..Len(invoked[r]) : invoked[r][k].thread = Loop

\* the timer of request r goes on after a firing: it is never spent, and it is
\* stopped only for a disposed token
Recurring(r) ==
  /\ timer[r] # "fired"
  /\ timer[r] = "stopped" => released[r]

\* C30: in the legacy thread-safe scheduler a schedule_periodic call makes a
\* recurring action: the action is called by the loop thread only, never by
\* the calling thread, once per period until the token is disposed.
C30_LegacyPeriodicRecursOnLoop ==
  \A r \in Requests :
    call[r].op = "schedule_periodic" => (OnLoopOnly(r) /\ Recurring(r))

\* C30, the recurrence alone
C30_LegacyPeriodicRecurs ==
  \A r \in Requests : call[r].op = "schedule_periodic" => Recurring(r)

\* the single-shot timer of request r has fired
FiredOneShot(r) == path[r] = SINGLE_SHOT /\ Len(invoked[r]) >= 1

\* the step is a dispose call on the token of request r
DisposesToken(r) == disposeCalls'[r] # disposeCalls[r]

\* a one-shot action is called at most once and never for a disposed token
OneShotOnceUnlessDisposed ==
  /\ [](\A r \in Requests : path[r] = SINGLE_SHOT => Len(invoked[r]) <= 1)
  /\ [][\A r \in Requests :
          (path[r] = SINGLE_SHOT /\ invoked'[r] # invoked[r]) => ~released[r]]_vars

\* C31: in the single-threaded QtScheduler, _timers holds exactly the timers
\* that were started and have neither fired as one-shot nor been disposed; a
\* one-shot action is called at most once and never after its token was
\* disposed; a dispose after the timer fired, or a second dispose, changes
\* nothing.
C31_TimersSetExact ==
  /\ [](timers = { r \in 1..nreq : ~released[r] /\ ~FiredOneShot(r) })
  /\ OneShotOnceUnlessDisposed
  /\ [][\A r \in Requests :
          (DisposesToken(r) /\ (released[r] \/ FiredOneShot(r))) =>
             /\ timers' = timers /\ timer' = timer
             /\ invoked' = invoked /\ periodic_state' = periodic_state]_vars

\* C31 for actions that return: _timers holds the timers started, not
\* disposed, and not fired as one-shot with the action returning; a one-shot
\* timer whose action raised stays in the set until its token is disposed.
\* A second dispose, or a dispose after a one-shot action returned, changes
\* nothing.
C31_TimersSetExactWhenActionsReturn ==
  /\ [](timers = { r \in 1..nreq :
                     ~released[r] /\ ~(FiredOneShot(r) /\ faulted[r] = {}) })
  /\ OneShotOnceUnlessDisposed
  /\ [][\A r \in Requests :
          (DisposesToken(r) /\ (released[r] \/ (FiredOneShot(r) /\ faulted[r] = {}))) =>
             /\ timers' = timers /\ timer' = timer
             /\ invoked' = invoked /\ periodic_state' = periodic_state]_vars

==============================================================================
